---- MODULE Spec2Model ----
(***************************************************************************)
(* Model of nfs-mountpoint-check.c: a supervisor process parses its        *)
(* command line, forks a worker that probes a mount point, arms alarm(),   *)
(* waits for the worker, classifies the wait status and exits through      *)
(* exitcode_map.  The SIGALRM handler kills the worker.                    *)
(***************************************************************************)
EXTENDS Integers, Sequences, FiniteSets, TLC

(* ---------------- program constants ---------------- *)
ERRNO_MAX == 256
EUNKNOWN == 255
CHECK_METHOD_STAT == 1
CHECK_METHOD_READDIR == 2
\* <errno.h> / <signal.h> / <limits.h> values on Linux
ENOENT == 2
EINVAL == 22
ESTALE == 116
ETIMEDOUT == 110
EAGAIN == 11
SIGKILL == 9
SIGTERM == 15
INT_MAX == 2147483647

(* ---------------- bounds of the model ---------------- *)
\* number of options getopt_long hands to the switch in one run
MaxOpts == 2

\* pid returned by a successful fork() in the parent
ChildPid == 7

None == -1

(* ---------------- strtol / safe_atoi ---------------- *)
\* Text is a sequence of one-character strings.
Digits == {"0", "1", "2", "3", "4", "5", "6", "7", "8", "9"}

DigitVal(c) ==
    CASE c = "0" -> 0 [] c = "1" -> 1 [] c = "2" -> 2 [] c = "3" -> 3
      [] c = "4" -> 4 [] c = "5" -> 5 [] c = "6" -> 6 [] c = "7" -> 7
      [] c = "8" -> 8 [] c = "9" -> 9

\* index of the first character that is not white space
RECURSIVE SkipSpace(_, _)
SkipSpace(s, i) ==
    IF i <= Len(s) /\ s[i] = " " THEN SkipSpace(s, i + 1) ELSE i

\* Accumulate decimal digits from position i.  mag is the magnitude so far,
\* big says the magnitude already left the range of int (strtol then yields
\* a long outside [INT_MIN, INT_MAX], or saturates with ERANGE).
RECURSIVE ScanDigits(_, _, _, _)
ScanDigits(s, i, mag, big) ==
    IF i <= Len(s) /\ s[i] \in Digits
    THEN LET d == DigitVal(s[i])
             over == big \/ mag > (INT_MAX - d) \div 10
         IN  ScanDigits(s, i + 1, IF over THEN INT_MAX ELSE mag * 10 + d, over)
    ELSE [end |-> i, mag |-> mag, big |-> big]

\* strtol(s, &end, 10): end = 0 stands for end == s (no conversion).
strtol(s) ==
    LET i0 == SkipSpace(s, 1)
        neg == i0 <= Len(s) /\ s[i0] = "-"
        i1 == IF i0 <= Len(s) /\ s[i0] \in {"-", "+"} THEN i0 + 1 ELSE i0
        r == ScanDigits(s, i1, 0, FALSE)
    IN  IF r.end = i1
        THEN [end |-> 0, val |-> 0, big |-> FALSE]
        ELSE [end |-> r.end, val |-> IF neg THEN 0 - r.mag ELSE r.mag, big |-> r.big]

\* safe_atoi: ok = FALSE is error() + exit(EINVAL)
safe_atoi(s) ==
    LET r == strtol(s)
    IN  IF r.end # 0 /\ ~r.big
        THEN [ok |-> TRUE, val |-> r.val]
        ELSE [ok |-> FALSE, val |-> 0]

(* ---------------- parse_check_method ---------------- *)
\* strtok(s, ","): the tokens are the maximal runs of characters other than
\* the delimiter; empty runs yield no token.
RECURSIVE strtok(_, _, _)
strtok(s, i, cur) ==
    IF i > Len(s)
    THEN IF cur = <<>> THEN <<>> ELSE <<cur>>
    ELSE IF s[i] = ","
         THEN (IF cur = <<>> THEN <<>> ELSE <<cur>>) \o strtok(s, i + 1, <<>>)
         ELSE strtok(s, i + 1, Append(cur, s[i]))

\* strcasecmp(tok, word) == 0 ; word is given in lower case
Lower(c) ==
    CASE c = "S" -> "s" [] c = "T" -> "t" [] c = "A" -> "a" [] c = "R" -> "r"
      [] c = "E" -> "e" [] c = "D" -> "d" [] c = "I" -> "i" [] OTHER -> c

strcasecmp_eq(tok, word) ==
    /\ Len(tok) = Len(word)
    /\ \A k \in 1..Len(tok) : Lower(tok[k]) = word[k]

WordStat == <<"s", "t", "a", "t">>
WordReaddir == <<"r", "e", "a", "d", "d", "i", "r">>

\* bitwise or of a two-bit mask with a single bit
BitOr(m, b) == IF (m \div b) % 2 = 1 THEN m ELSE m + b
HasBit(m, b) == (m \div b) % 2 = 1

RECURSIVE FoldMethods(_, _, _)
FoldMethods(toks, k, mask) ==
    IF k > Len(toks)
    THEN [ok |-> TRUE, val |-> mask]
    ELSE IF strcasecmp_eq(toks[k], WordStat)
         THEN FoldMethods(toks, k + 1, BitOr(mask, CHECK_METHOD_STAT))
         ELSE IF strcasecmp_eq(toks[k], WordReaddir)
              THEN FoldMethods(toks, k + 1, BitOr(mask, CHECK_METHOD_READDIR))
              ELSE [ok |-> FALSE, val |-> 0]

\* parse_check_method: ok = FALSE is error() + exit(EINVAL)
parse_check_method(s) == FoldMethods(strtok(s, 1, <<>>), 1, 0)

(* ---------------- inputs ---------------- *)
\* arguments given to -i
IgnoreArgs ==
    { <<"2">>, <<"1", "1", "0">>, <<"2", "5", "5">>, <<"2", "5", "6">>,
      <<"-", "1">>, <<"x">> }

\* arguments given to -t
TimeoutArgs ==
    { <<"1">>, <<"0">>, <<"-", "5">>, <<" ", "3">>, <<"2", "s">>, <<>>,
      <<"9", "9", "9", "9", "9", "9", "9", "9", "9", "9">> }

\* arguments given to -m
MethodArgs ==
    { WordStat, WordReaddir,
      WordStat \o <<",">> \o WordReaddir,
      <<"S", "t", "a", "t">>,
      <<"l", "s">>,
      <<>>, <<",">> }


\* errno values a failing probe system call reports
ProbeErrnos == {ENOENT, ETIMEDOUT, ESTALE}

\* value of errno left behind when readdir() returns NULL without setting it
StaleErrnos == {0, ENOENT}

\* signals sent to the worker by something other than handle_sigalrm
ExternalSignals == {SIGKILL, SIGTERM}

(* ---------------- state ---------------- *)
VARIABLES
    pc,                \* position of the supervisor (parent) in main
    exitStatus,        \* status the supervisor process exited with, or None
    exitAt,            \* the exit call that ended the supervisor
    exitcode_map,      \* main: int exitcode_map[ERRNO_MAX]
    check_method_set,  \* main: check_method_set
    check_method,      \* main: check_method
    timeout,           \* main: timeout
    verbosity,         \* global verbosity
    nopts,             \* options consumed by getopt_long so far
    argError,          \* the command line held an argument error
    child,             \* global child
    alarm_armed,       \* the process's one-shot alarm timer is pending
    eintr,             \* the blocked waitpid was interrupted and returns EINTR
    status,            \* wait_for_child: status filled in by waitpid
    ret,               \* main (parent): ret = wait_for_child(timeout)
    wpc,               \* position of the worker (child process)
    wblocked,          \* the worker's current system call never returns
    wret,              \* check_mountpoint: ret
    wstatus,           \* how the worker terminated
    probes,            \* probes the worker started, in order
    sigchld_ignored,   \* SIGCHLD disposition inherited through exec is SIG_IGN
    strangerKilled,    \* a kill hit an unrelated process that reused the pid
    ignored,           \* history: the integers given with -i
    statRet,           \* history: what check_mountpoint_stat returned
    readdirRet,        \* history: what check_mountpoint_readdir returned
    failed,            \* history: a system call of a probe reported failure
    killer,            \* history: who ended the worker with a signal
    killAt             \* history: state of the worker when the handler called kill

vars == << pc, exitStatus, exitAt, exitcode_map, check_method_set, check_method,
           timeout, verbosity, nopts, argError, child, alarm_armed, eintr,
           status, ret, wpc, wblocked, wret, wstatus, probes, sigchld_ignored,
           strangerKilled, ignored, statRet, readdirRet, failed, killer,
           killAt >>

optVars == << exitcode_map, check_method_set, check_method, timeout, verbosity,
             ignored >>
workerVars == << wpc, wblocked, wret, wstatus, probes, statRet, readdirRet,
                failed, killer >>
waitVars == << child, alarm_armed, eintr, status, ret, strangerKilled, killAt >>

NoStatus == [kind |-> "none", val |-> 0]
Exited(n) == [kind |-> "exited", val |-> n]
Signaled(n) == [kind |-> "signaled", val |-> n]

\* State after the declarations of main and the loop of lines 413-415.
Init ==
    /\ pc = "getopt"
    /\ exitStatus = None
    /\ exitAt = "none"
    /\ exitcode_map = [i \in 0..(ERRNO_MAX - 1) |-> i]
    /\ check_method_set = 0
    /\ check_method = 0
    /\ timeout = 2
    /\ verbosity = 1
    /\ nopts = 0
    /\ argError = FALSE
    /\ child = 0
    /\ alarm_armed = FALSE
    /\ eintr = FALSE
    /\ status = NoStatus
    /\ ret = None
    /\ wpc = "none"
    /\ wblocked = FALSE
    /\ wret = 0
    /\ wstatus = NoStatus
    /\ probes = <<>>
    /\ sigchld_ignored \in BOOLEAN
    /\ strangerKilled = FALSE
    /\ ignored = {}
    /\ statRet = None
    /\ readdirRet = None
    /\ failed = FALSE
    /\ killer = "none"
    /\ killAt = "none"

(* ---------------- process exit ---------------- *)
\* exit(code) / _exit(code) of the supervisor; the alarm dies with the process
ExitWith(code, at) ==
    /\ pc' = "exited"
    /\ exitStatus' = code
    /\ exitAt' = at
    /\ alarm_armed' = FALSE

\* the supervisor is killed by SIGSEGV while parsing its options
Crash ==
    /\ pc' = "crashed"
    /\ alarm_armed' = FALSE
    /\ UNCHANGED << exitStatus, exitAt >>

\* the text is an optionally signed decimal integer (leading blanks allowed)
IsIntegerText(s) ==
    LET t == SubSeq(s, SkipSpace(s, 1), Len(s))
        body == IF t # <<>> /\ t[1] \in {"-", "+"} THEN Tail(t) ELSE t
    IN  body # <<>> /\ \A k \in 1..Len(body) : body[k] \in Digits

(* ---------------- option parsing: main, lines 418-470 ---------------- *)
\* case 'h'
OptHelp ==
    /\ pc = "getopt" /\ nopts < MaxOpts
    /\ nopts' = nopts + 1
    /\ ExitWith(0, "help")
    /\ UNCHANGED << optVars, argError, child, eintr, status, ret,
                    strangerKilled, killAt, workerVars, sigchld_ignored >>

\* case 'i' with an index inside the array
OptIgnore ==
    /\ pc = "getopt" /\ nopts < MaxOpts
    /\ \E s \in IgnoreArgs :
         LET tmp == safe_atoi(s)
         IN  /\ ~tmp.ok \/ tmp.val \in DOMAIN exitcode_map
             /\ nopts' = nopts + 1
             /\ argError' = (argError \/ ~IsIntegerText(s))
             /\ IF tmp.ok
                THEN /\ exitcode_map' = [exitcode_map EXCEPT ![tmp.val] = 0]
                     /\ ignored' = ignored \cup {tmp.val}
                     /\ UNCHANGED << pc, exitStatus, exitAt, alarm_armed >>
                ELSE /\ ExitWith(EINVAL, "safe_atoi")
                     /\ UNCHANGED << exitcode_map, ignored >>
    /\ UNCHANGED << check_method_set, check_method, timeout, verbosity, child,
                    eintr, status, ret, strangerKilled, killAt, workerVars,
                    sigchld_ignored >>

\* What a store of 0 outside exitcode_map can do: nothing that is read again,
\* overwrite a neighbouring local of main, or fault.
ClobberTargets == {"unused", "timeout", "check_method", "check_method_set", "fault"}

\* case 'i' with an index outside the array: exitcode_map[tmp] = 0 is
\* undefined behaviour
OptIgnoreOutOfBounds ==
    /\ pc = "getopt" /\ nopts < MaxOpts
    /\ \E s \in IgnoreArgs, target \in ClobberTargets :
         LET tmp == safe_atoi(s)
         IN  /\ tmp.ok /\ tmp.val \notin DOMAIN exitcode_map
             /\ nopts' = nopts + 1
             /\ ignored' = ignored \cup {tmp.val}
             /\ timeout' = IF target = "timeout" THEN 0 ELSE timeout
             /\ check_method' = IF target = "check_method" THEN 0 ELSE check_method
             /\ check_method_set' =
                    IF target = "check_method_set" THEN 0 ELSE check_method_set
             /\ IF target = "fault"
                THEN Crash
                ELSE UNCHANGED << pc, exitStatus, exitAt, alarm_armed >>
    /\ UNCHANGED << exitcode_map, verbosity, argError, child, eintr, status, ret,
                    strangerKilled, killAt, workerVars, sigchld_ignored >>

\* case 'm'
OptMethod ==
    /\ pc = "getopt" /\ nopts < MaxOpts
    /\ \E s \in MethodArgs :
         LET m == parse_check_method(s)
         IN  /\ nopts' = nopts + 1
             /\ check_method_set' = 1
             /\ IF m.ok
                THEN /\ check_method' = m.val
                     /\ UNCHANGED << pc, exitStatus, exitAt, alarm_armed, argError >>
                ELSE /\ ExitWith(EINVAL, "parse_check_method")
                     /\ argError' = TRUE
                     /\ UNCHANGED check_method
    /\ UNCHANGED << exitcode_map, ignored, timeout, verbosity, child, eintr,
                    status, ret, strangerKilled, killAt, workerVars, sigchld_ignored >>

\* case 't'
OptTimeout ==
    /\ pc = "getopt" /\ nopts < MaxOpts
    /\ \E s \in TimeoutArgs :
         LET t == safe_atoi(s)
         IN  /\ nopts' = nopts + 1
             /\ argError' = (argError \/ ~IsIntegerText(s))
             /\ IF t.ok
                THEN /\ timeout' = t.val
                     /\ UNCHANGED << pc, exitStatus, exitAt, alarm_armed >>
                ELSE /\ ExitWith(EINVAL, "safe_atoi")
                     /\ UNCHANGED timeout
    /\ UNCHANGED << exitcode_map, ignored, check_method_set, check_method,
                    verbosity, child, eintr, status, ret, strangerKilled, killAt,
                    workerVars, sigchld_ignored >>

\* case 'v'
OptVerbose ==
    /\ pc = "getopt" /\ nopts < MaxOpts
    /\ nopts' = nopts + 1
    /\ verbosity' = IF verbosity <= 2 THEN verbosity + 1 ELSE verbosity
    /\ UNCHANGED << pc, exitStatus, exitAt, exitcode_map, ignored,
                    check_method_set, check_method, timeout, argError, waitVars,
                    workerVars, sigchld_ignored >>

\* case 'q'
OptQuiet ==
    /\ pc = "getopt" /\ nopts < MaxOpts
    /\ nopts' = nopts + 1
    /\ verbosity' = IF verbosity >= 1 THEN verbosity - 1 ELSE verbosity
    /\ UNCHANGED << pc, exitStatus, exitAt, exitcode_map, ignored,
                    check_method_set, check_method, timeout, argError, waitVars,
                    workerVars, sigchld_ignored >>

\* case '?': getopt_long met an unknown option, an option that lacks its
\* argument, or a long option given as --name=value; the switch only breaks
OptUnknown ==
    /\ pc = "getopt" /\ nopts < MaxOpts
    /\ nopts' = nopts + 1
    /\ argError' = TRUE
    /\ UNCHANGED << pc, exitStatus, exitAt, optVars, waitVars, workerVars,
                    sigchld_ignored >>

\* --method, --timeout, --ignore-errno: long_options declares them
\* no_argument, so optarg is NULL and strtok / strtol dereference it
OptLongNullArg ==
    /\ pc = "getopt" /\ nopts < MaxOpts
    /\ nopts' = nopts + 1
    /\ argError' = TRUE
    /\ Crash
    /\ UNCHANGED << optVars, child, eintr, status, ret, strangerKilled, killAt,
                    workerVars, sigchld_ignored >>

(* ---------------- main, lines 472-518 ---------------- *)
\* c == -1 ends the loop; the default method is applied, then the number of
\* paths left in argv and the effective uid are checked before the handler
\* for SIGALRM is installed.
EndOfOptions ==
    /\ pc = "getopt"
    /\ \E npaths \in 0..2, euid \in {0, 1000} :
         LET bad == npaths # 1 \/ euid > 0
         IN  /\ check_method' =
                    IF check_method_set = 0
                    THEN BitOr(BitOr(check_method, CHECK_METHOD_STAT),
                               CHECK_METHOD_READDIR)
                    ELSE check_method
             /\ argError' = (argError \/ bad)
             /\ IF bad
                THEN ExitWith(EINVAL, IF npaths # 1 THEN "path" ELSE "geteuid")
                ELSE /\ pc' = "fork"
                     /\ UNCHANGED << exitStatus, exitAt, alarm_armed >>
    /\ UNCHANGED << exitcode_map, ignored, check_method_set, timeout, verbosity,
                    nopts, child, eintr, status, ret, strangerKilled, killAt, workerVars,
                    sigchld_ignored >>


(* ---------------- main, lines 541-549: fork ---------------- *)
\* fork() succeeded: the parent records the pid, the child starts
\* check_mountpoint on its copy of path and check_method
ForkOk ==
    /\ pc = "fork"
    /\ child' = ChildPid
    /\ wpc' = "start"
    /\ pc' = "alarm"
    /\ UNCHANGED << exitStatus, exitAt, optVars, nopts, argError, alarm_armed,
                    eintr, status, ret, strangerKilled, killAt, wblocked, wret, wstatus,
                    probes, statRet, readdirRet, failed, killer,
                    sigchld_ignored >>

\* fork() failed: exit(errsave)
ForkFail ==
    /\ pc = "fork"
    /\ child' = -1
    /\ ExitWith(EAGAIN, "fork")
    /\ UNCHANGED << optVars, nopts, argError, eintr, status, ret, strangerKilled, killAt,
                    workerVars, sigchld_ignored >>

(* ---------------- the worker: check_mountpoint and the probes ---------------- *)
SyscallPcs == {"open", "fstat", "close", "opendir", "readdir", "closedir"}
RunningPcs == {"start", "exit"} \cup SyscallPcs

\* check_mountpoint, lines 186-190 and 198-200: the first probe to run
FirstProbe(method) ==
    IF HasBit(method, CHECK_METHOD_STAT) THEN "open"
    ELSE IF HasBit(method, CHECK_METHOD_READDIR) THEN "opendir"
    ELSE "exit"

\* AfterStat without the early return of lines 192-195
AfterStat_NoEarlyReturn(method, r) ==
    IF HasBit(method, CHECK_METHOD_READDIR) THEN "opendir" ELSE "exit"

\* check_mountpoint, lines 190-200: where the worker goes when
\* check_mountpoint_stat returned r
AfterStat(method, r) ==
    IF r # 0 THEN "exit"
    ELSE IF HasBit(method, CHECK_METHOD_READDIR) THEN "opendir"
    ELSE "exit"

ProbeOf(p) == IF p = "open" THEN <<"stat">>
              ELSE IF p = "opendir" THEN <<"readdir">> ELSE <<>>

\* what no step of the probes changes
workerFrame == << pc, exitStatus, exitAt, optVars, nopts, argError, waitVars,
                  wblocked, wstatus, killer, sigchld_ignored >>

\* the probe goes on to its next system call
ProbeContinues == UNCHANGED << wret, probes, statRet, readdirRet >>

WorkerStart ==
    /\ wpc = "start"
    /\ wpc' = FirstProbe(check_method)
    /\ probes' = probes \o ProbeOf(wpc')
    /\ wret' = 0
    /\ UNCHANGED << failed, statRet, readdirRet >>
    /\ UNCHANGED workerFrame

\* check_mountpoint_stat returns r to check_mountpoint
StatReturn(r) ==
    /\ wret' = r
    /\ statRet' = r
    /\ UNCHANGED readdirRet
    /\ wpc' = AfterStat(check_method, r)
    /\ probes' = probes \o ProbeOf(wpc')

\* check_mountpoint_readdir returns r to check_mountpoint, which returns it
ReaddirReturn(r) ==
    /\ wret' = r
    /\ readdirRet' = r
    /\ wpc' = "exit"
    /\ UNCHANGED << probes, statRet >>

\* open(path, O_RDONLY | O_SYNC)
StatOpen ==
    /\ wpc = "open" /\ ~wblocked
    /\ \E e \in {0} \cup ProbeErrnos :
         /\ failed' = (failed \/ e # 0)
         /\ IF e = 0
            THEN wpc' = "fstat" /\ ProbeContinues
            ELSE StatReturn(e)
    /\ UNCHANGED workerFrame

\* fstat(fd, &buf); on failure close(fd) and return errsave
StatFstat ==
    /\ wpc = "fstat" /\ ~wblocked
    /\ \E e \in {0} \cup ProbeErrnos :
         /\ failed' = (failed \/ e # 0)
         /\ IF e = 0
            THEN wpc' = "close" /\ ProbeContinues
            ELSE StatReturn(e)
    /\ UNCHANGED workerFrame

\* close(fd)
StatClose ==
    /\ wpc = "close" /\ ~wblocked
    /\ \E e \in {0} \cup ProbeErrnos :
         /\ failed' = (failed \/ e # 0)
         /\ StatReturn(e)
    /\ UNCHANGED workerFrame

\* opendir(path)
ReaddirOpendir ==
    /\ wpc = "opendir" /\ ~wblocked
    /\ \E e \in {0} \cup ProbeErrnos :
         /\ failed' = (failed \/ e # 0)
         /\ IF e = 0
            THEN wpc' = "readdir" /\ ProbeContinues
            ELSE ReaddirReturn(e)
    /\ UNCHANGED workerFrame

\* readdir(dirp): an entry, NULL with errno set, or NULL at the end of the
\* directory, which leaves errno as it was
ReaddirReaddir ==
    /\ wpc = "readdir" /\ ~wblocked
    /\ \E r \in {"entry", "error", "end"} :
         /\ failed' = (failed \/ r # "entry")
         /\ CASE r = "entry" -> wpc' = "closedir" /\ ProbeContinues
             [] r = "error" -> \E e \in ProbeErrnos : ReaddirReturn(e)
             [] r = "end" -> \E e \in StaleErrnos : ReaddirReturn(e)
    /\ UNCHANGED workerFrame

\* closedir(dirp)
ReaddirClosedir ==
    /\ wpc = "closedir" /\ ~wblocked
    /\ \E e \in {0} \cup ProbeErrnos :
         /\ failed' = (failed \/ e # 0)
         /\ ReaddirReturn(e)
    /\ UNCHANGED workerFrame

\* the server does not answer: the system call the worker is in never returns
WorkerBlock ==
    /\ wpc \in SyscallPcs /\ ~wblocked
    /\ wblocked' = TRUE
    /\ UNCHANGED << pc, exitStatus, exitAt, optVars, nopts, argError, waitVars,
                    wpc, wret, wstatus, probes, statRet, readdirRet, failed,
                    killer, sigchld_ignored >>

\* The worker terminates with wait status st.  It stays a zombie until the
\* parent waits for it, unless SIGCHLD is ignored: then it is reaped at once.
Terminate(st) ==
    /\ wstatus' = st
    /\ wpc' = IF sigchld_ignored THEN "gone" ELSE "zombie"

\* main, line 549: exit(ret) in the child
WorkerExit ==
    /\ wpc = "exit"
    /\ Terminate(Exited(wret % 256))
    /\ UNCHANGED << pc, exitStatus, exitAt, optVars, nopts, argError, waitVars,
                    wblocked, wret, probes, statRet, readdirRet, failed, killer,
                    sigchld_ignored >>

\* a signal that handle_sigalrm did not send ends the worker
ExternalSignal ==
    /\ wpc \in RunningPcs
    /\ \E sig \in ExternalSignals : Terminate(Signaled(sig))
    /\ killer' = "external"
    /\ UNCHANGED << pc, exitStatus, exitAt, optVars, nopts, argError, waitVars,
                    wblocked, wret, probes, statRet, readdirRet, failed,
                    sigchld_ignored >>

(* ---------------- wait_for_child ---------------- *)
supFrame == << optVars, nopts, argError, child, sigchld_ignored, strangerKilled, killAt >>

\* line 230: alarm(timeout); alarm(0) arms nothing, any other value
\* (converted to unsigned) arms the timer
Alarm ==
    /\ pc = "alarm"
    /\ alarm_armed' = (timeout # 0)
    /\ pc' = "waitpid"
    /\ UNCHANGED << exitStatus, exitAt, eintr, status, ret, workerVars, supFrame >>

\* WaitpidReturn that also resets the global child once the worker is reaped
WaitpidReturn_ClearsChild ==
    /\ pc = "waitpid" /\ ~eintr
    /\ wpc = "zombie"
    /\ status' = wstatus
    /\ wpc' = "gone"
    /\ pc' = "cancel"
    /\ child' = 0
    /\ UNCHANGED << exitStatus, exitAt, alarm_armed, eintr, ret, wblocked, wret,
                    wstatus, probes, statRet, readdirRet, failed, killer,
                    optVars, nopts, argError, sigchld_ignored, strangerKilled,
                    killAt >>

\* line 237: waitpid(child, &status, 0) returns the pid
WaitpidReturn ==
    /\ pc = "waitpid" /\ ~eintr
    /\ wpc = "zombie"
    /\ status' = wstatus
    /\ wpc' = "gone"
    /\ pc' = "cancel"
    /\ UNCHANGED << exitStatus, exitAt, alarm_armed, eintr, ret, wblocked, wret,
                    wstatus, probes, statRet, readdirRet, failed, killer,
                    supFrame >>

\* WaitpidInterrupted without the EINTR test of line 239: exit(1)
WaitpidInterrupted_Fatal ==
    /\ pc = "waitpid" /\ eintr
    /\ eintr' = FALSE
    /\ ExitWith(1, "waitpid")
    /\ UNCHANGED << status, ret, workerVars, supFrame >>

\* lines 237-241: waitpid returned -1 with errno == EINTR; continue
WaitpidInterrupted ==
    /\ pc = "waitpid" /\ eintr
    /\ eintr' = FALSE
    /\ UNCHANGED << pc, exitStatus, exitAt, alarm_armed, status, ret, workerVars,
                    supFrame >>

\* lines 243-244: waitpid failed with another errno (ECHILD: the worker was
\* reaped by the kernel because SIGCHLD is ignored); exit(1)
WaitpidFailed ==
    /\ pc = "waitpid" /\ ~eintr
    /\ wpc = "gone"
    /\ ExitWith(1, "waitpid")
    /\ UNCHANGED << eintr, status, ret, workerVars, supFrame >>

\* CancelAlarm without the alarm(0) of line 255
CancelAlarm_Skipped ==
    /\ pc = "cancel"
    /\ pc' = "classify"
    /\ UNCHANGED << alarm_armed, exitStatus, exitAt, eintr, status, ret,
                    workerVars, supFrame >>

\* line 255: alarm(0)
CancelAlarm ==
    /\ pc = "cancel"
    /\ alarm_armed' = FALSE
    /\ pc' = "classify"
    /\ UNCHANGED << exitStatus, exitAt, eintr, status, ret, workerVars, supFrame >>

\* WaitStatusToRet that takes every terminating signal for the timeout
WaitStatusToRet_AnySignalTimeout(st) ==
    IF st.kind = "exited" THEN st.val
    ELSE IF st.kind = "signaled" THEN ETIMEDOUT
    ELSE EUNKNOWN

\* WaitStatusToRet without the SIGKILL test of line 273
WaitStatusToRet_NoKillTest(st) ==
    IF st.kind = "exited" THEN st.val ELSE EUNKNOWN

\* lines 257-300: the value wait_for_child returns for a wait status
WaitStatusToRet(st) ==
    IF st.kind = "exited" THEN st.val
    ELSE IF st.kind = "signaled"
         THEN (IF st.val = SIGKILL THEN ETIMEDOUT ELSE EUNKNOWN)
         ELSE EUNKNOWN

Classify ==
    /\ pc = "classify"
    /\ ret' = WaitStatusToRet(status)
    /\ pc' = "translate"
    /\ UNCHANGED << exitStatus, exitAt, alarm_armed, eintr, status, workerVars,
                    supFrame >>

\* ExitCodeFor without the lookup in exitcode_map
ExitCodeFor_NoMap(map, r) == r

\* main, line 561: the status the parent exits with
ExitCodeFor(map, r) == map[r]

\* Translate that forks a new worker after a check that did not succeed
Translate_Retry ==
    /\ pc = "translate"
    /\ IF ret = 0
       THEN ExitWith(ExitCodeFor(exitcode_map, ret), "main")
       ELSE pc' = "fork" /\ UNCHANGED << exitStatus, exitAt, alarm_armed >>
    /\ UNCHANGED << eintr, status, ret, workerVars, supFrame >>

Translate ==
    /\ pc = "translate"
    /\ ExitWith(ExitCodeFor(exitcode_map, ret), "main")
    /\ UNCHANGED << eintr, status, ret, workerVars, supFrame >>

(* ---------------- handle_sigalrm ---------------- *)
\* The alarm expires and the handler runs in the supervisor.
\*   child <= 0: return.
\*   kill(child, SIGKILL) on a live worker ends it with SIGKILL; on a zombie
\*   it succeeds and changes nothing; once the worker has been reaped the pid
\*   names no process (kill fails, _exit(EUNKNOWN)) or an unrelated process
\*   that reused it (kill succeeds).
\*   A waitpid that was blocked is restarted (SA_RESTART) or returns EINTR.
\*   killAt records what the pid named when kill was called.
TimerExpire ==
    /\ alarm_armed
    /\ pc \notin {"exited", "crashed"}
    /\ \E reused \in BOOLEAN, restart \in BOOLEAN :
         IF child <= 0
         THEN /\ alarm_armed' = FALSE
              /\ UNCHANGED << pc, exitStatus, exitAt, eintr, strangerKilled,
                              wpc, wstatus, killer >>
         ELSE IF wpc \in RunningPcs
         THEN /\ alarm_armed' = FALSE
              /\ Terminate(Signaled(SIGKILL))
              /\ killer' = "guard"
              /\ eintr' = (pc = "waitpid" /\ ~restart)
              /\ UNCHANGED << pc, exitStatus, exitAt, strangerKilled >>
         ELSE IF wpc = "zombie"
         THEN /\ alarm_armed' = FALSE
              /\ UNCHANGED << pc, exitStatus, exitAt, eintr, strangerKilled,
                              wpc, wstatus, killer >>
         ELSE IF reused
         THEN /\ alarm_armed' = FALSE
              /\ strangerKilled' = TRUE
              /\ UNCHANGED << pc, exitStatus, exitAt, eintr, wpc, wstatus,
                              killer >>
         ELSE /\ ExitWith(EUNKNOWN, "handle_sigalrm")
              /\ UNCHANGED << eintr, strangerKilled, wpc, wstatus, killer >>
    /\ killAt' = IF child <= 0 THEN killAt
                 ELSE IF wpc \in RunningPcs THEN "running" ELSE wpc
    /\ UNCHANGED << optVars, nopts, argError, child, status, ret, wblocked, wret,
                    probes, statRet, readdirRet, failed, sigchld_ignored >>

(* ---------------- specification ---------------- *)
Next ==
    \/ OptHelp \/ OptIgnore \/ OptIgnoreOutOfBounds \/ OptMethod \/ OptTimeout
    \/ OptVerbose \/ OptQuiet \/ OptUnknown \/ OptLongNullArg \/ EndOfOptions
    \/ ForkOk \/ ForkFail
    \/ WorkerStart \/ StatOpen \/ StatFstat \/ StatClose
    \/ ReaddirOpendir \/ ReaddirReaddir \/ ReaddirClosedir
    \/ WorkerBlock \/ WorkerExit \/ ExternalSignal
    \/ Alarm \/ WaitpidReturn \/ WaitpidInterrupted \/ WaitpidFailed
    \/ CancelAlarm \/ Classify \/ Translate
    \/ TimerExpire

Spec == Init /\ [][Next]_vars

TypeOK ==
    /\ pc \in {"getopt", "fork", "alarm", "waitpid", "cancel", "classify",
               "translate", "exited", "crashed"}
    /\ exitStatus \in {None} \cup 0..255
    /\ check_method \in 0..3
    /\ check_method_set \in 0..1
    /\ verbosity \in 0..3
    /\ child \in {-1, 0, ChildPid}
    /\ wpc \in {"none", "zombie", "gone"} \cup RunningPcs
    /\ ret \in {None} \cup 0..255


\* The scheduler runs the supervisor whenever it can take a step, and a
\* pending alarm expires after its time has passed.
FairSpec ==
    /\ Spec
    /\ WF_vars(Alarm)
    /\ WF_vars(WaitpidReturn)
    /\ WF_vars(WaitpidInterrupted)
    /\ WF_vars(WaitpidFailed)
    /\ WF_vars(CancelAlarm)
    /\ WF_vars(Classify)
    /\ WF_vars(Translate)
    /\ WF_vars(TimerExpire)

(* ---------------- wait_for_child on every wait status ---------------- *)
\* every status waitpid can store: WIFEXITED with WEXITSTATUS 0..255,
\* WIFSIGNALED with WTERMSIG 1..64, WIFSTOPPED, WIFCONTINUED
WaitStatuses ==
    { Exited(n) : n \in 0..255 } \cup { Signaled(n) : n \in 1..64 }
    \cup { [kind |-> "stopped", val |-> n] : n \in {19, 20} }
    \cup { [kind |-> "continued", val |-> 0] }

\* wait_for_child right after waitpid stored a status (line 237)
ClassifyInit ==
    /\ pc = "cancel"
    /\ status \in WaitStatuses
    /\ wstatus = status
    /\ alarm_armed \in BOOLEAN
    /\ exitStatus = None
    /\ exitAt = "none"
    /\ exitcode_map = [i \in 0..(ERRNO_MAX - 1) |-> i]
    /\ check_method_set = 0
    /\ check_method = 3
    /\ timeout = 2
    /\ verbosity = 1
    /\ nopts = 0
    /\ argError = FALSE
    /\ child = ChildPid
    /\ eintr = FALSE
    /\ ret = None
    /\ wpc = "gone"
    /\ wblocked = FALSE
    /\ wret = 0
    /\ probes = <<>>
    /\ sigchld_ignored = FALSE
    /\ strangerKilled = FALSE
    /\ ignored = {}
    /\ statRet = None
    /\ readdirRet = None
    /\ failed = FALSE
    /\ killer = "none"
    /\ killAt = "none"

ClassifyNext == CancelAlarm \/ Classify \/ Translate \/ TimerExpire

ClassifySpec == ClassifyInit /\ [][ClassifyNext]_vars

(* ======================= claims ======================= *)

\* the run made no store outside exitcode_map
NoOverrun == ignored \subseteq 0..(ERRNO_MAX - 1)

\* C1 (as stated): once the worker is blocked for good, the supervisor
\* eventually exits with ETIMEDOUT, or with 0 when ETIMEDOUT was given with
\* -i, whatever timeout -t accepted.  (Runs with a well-formed command line,
\* the default SIGCHLD disposition and no store outside exitcode_map; a
\* worker ended by a foreign signal is not blocked for ever.)
C1_Original ==
    []((wblocked /\ ~sigchld_ignored /\ NoOverrun /\ ~argError)
        => <>(\/ killer = "external"
              \/ /\ pc = "exited"
                 /\ exitStatus = IF ETIMEDOUT \in ignored THEN 0 ELSE ETIMEDOUT))

\* C2 (as stated): when every probe step succeeded and the worker exited
\* with status 0, the supervisor exits with 0, wherever the alarm expires.
\* (Runs with a well-formed command line that selects a probe, the default
\* SIGCHLD disposition and no store outside exitcode_map.)
C2_Original ==
    (/\ pc = "exited"
     /\ child = ChildPid
     /\ probes # <<>>
     /\ wstatus = Exited(0)
     /\ ~failed
     /\ ~sigchld_ignored
     /\ NoOverrun
     /\ ~argError)
    => exitStatus = 0

\* C3: check_mountpoint runs the stat probe before the readdir probe; a
\* failing stat probe ends it with that code and the readdir probe is not
\* started; it returns 0 only if every selected probe returned 0, otherwise
\* the code of the first selected probe that failed.
C3_ProbeOrder ==
    /\ probes \in {<<>>, <<"stat">>, <<"readdir">>, <<"stat", "readdir">>}
    /\ statRet \notin {None, 0}
         => /\ probes = <<"stat">>
            /\ readdirRet = None
            /\ wpc \notin SyscallPcs
    /\ wpc = "exit"
         => /\ HasBit(check_method, CHECK_METHOD_STAT) => statRet # None
            /\ wret = 0
                 => /\ HasBit(check_method, CHECK_METHOD_STAT) => statRet = 0
                    /\ HasBit(check_method, CHECK_METHOD_READDIR) => readdirRet = 0
            /\ wret # 0
                 => wret = IF statRet \notin {None, 0} THEN statRet ELSE readdirRet

C3_Witness ==
    /\ wpc = "exit"
    /\ check_method = 3
    /\ statRet = ENOENT
    /\ wret = ENOENT
    /\ probes = <<"stat">>

\* C4: wait_for_child returns 0 for a normal exit with code 0, N for a normal
\* exit with code N, ETIMEDOUT for termination by SIGKILL, EUNKNOWN for
\* termination by any other signal and for a stopped or continued worker.
C4_Classification ==
    /\ pc = "translate" => ret # None
    /\ ret # None
         => /\ (status.kind = "exited" /\ status.val = 0) => ret = 0
            /\ (status.kind = "exited" /\ status.val # 0) => ret = status.val
            /\ (status.kind = "signaled" /\ status.val = SIGKILL) => ret = ETIMEDOUT
            /\ (status.kind = "signaled" /\ status.val # SIGKILL) => ret = EUNKNOWN
            /\ status.kind \in {"stopped", "continued"} => ret = EUNKNOWN

C4_Witness ==
    /\ pc = "translate"
    /\ status.kind = "stopped"
    /\ ret = EUNKNOWN

\* C5: the parent's exit through exitcode_map is 0 when the value returned by
\* wait_for_child was given with -i and that value otherwise; every exit
\* status is in 0..255.
C5_Translation ==
    /\ pc = "exited" => exitStatus \in 0..255
    /\ exitAt = "main" => exitStatus = IF ret \in ignored THEN 0 ELSE ret

C5_Witness ==
    /\ exitAt = "main"
    /\ ret = ETIMEDOUT
    /\ ETIMEDOUT \in ignored
    /\ exitStatus = 0

\* C6 (as stated): a run with -i 255 never exits with 255, and a run with
\* -i ETIMEDOUT never exits with ETIMEDOUT, the exit from the signal handler
\* included.  (Runs with the default SIGCHLD disposition.)
C6_Original ==
    ~sigchld_ignored
      => /\ (pc = "exited" /\ EUNKNOWN \in ignored) => exitStatus # EUNKNOWN
         /\ (pc = "exited" /\ ETIMEDOUT \in ignored) => exitStatus # ETIMEDOUT

\* C7: a wait interrupted by SIGALRM while the worker had not terminated
\* produces no result and no exit; the parent stays in the waitpid loop, and
\* a result exists only once waitpid has stored the worker's status.
C7_WaitRetried ==
    [][ /\ (pc = "waitpid" /\ eintr)
            => /\ pc' = "waitpid"
               /\ ret' = None /\ status' = NoStatus /\ exitStatus' = None
        /\ (pc = "waitpid" /\ alarm_armed /\ ~alarm_armed' /\ wpc \in RunningPcs)
            => /\ pc' = "waitpid"
               /\ ret' = None /\ status' = NoStatus /\ exitStatus' = None
        /\ ret' # None
            => /\ status' # NoStatus
               /\ status' = wstatus'
               /\ wpc' = "gone"
      ]_vars

C7_Witness ==
    /\ pc = "waitpid"
    /\ eintr
    /\ killer = "guard"
    /\ ret = None

\* C8 (as stated): after any argument error the process has exited with
\* EINVAL, no worker was forked and no probe ran.
C8_Original ==
    argError
      => /\ pc = "exited"
         /\ exitStatus = EINVAL
         /\ child = 0
         /\ probes = <<>>

\* C9 (as stated): a run that reaches the worker has a check_method with at
\* least one bit set, and a worker that exits with 0 ran at least one probe.
C9_Original ==
    NoOverrun
      => /\ wpc # "none" => check_method \in 1..3
         /\ wstatus = Exited(0) => probes # <<>>

\* C10 (as stated): the value handed to alarm() at line 230 is at least 1.
C10_Original ==
    (pc \in {"waitpid", "cancel", "classify", "translate"} /\ NoOverrun)
      => timeout >= 1


\* C11: the global child is written once, by the fork at line 541, while no
\* alarm is pending, and keeps its value; an alarm is pending only with
\* child > 0, and handle_sigalrm calls kill only with child > 0.
C11_ChildWrittenOnce ==
    [][ /\ child' # child
            => /\ pc = "fork"
               /\ child = 0
               /\ ~alarm_armed /\ ~alarm_armed'
        /\ alarm_armed' => child' > 0
        /\ killAt' # killAt => child > 0 /\ child' = child
      ]_vars

C11_Witness ==
    /\ child = ChildPid
    /\ killAt = "running"
    /\ killer = "guard"

\* C12 (as stated): handle_sigalrm never calls kill on the recorded pid after
\* waitpid has reaped the worker, so the run never ends in the handler's
\* _exit(EUNKNOWN).  (Runs with the default SIGCHLD disposition.)
C12_Original ==
    ~sigchld_ignored
      => /\ killAt # "gone"
         /\ exitAt # "handle_sigalrm"

\* C13 (as stated): the worker never exits with the value of a sentinel, so
\* an exit of the parent with ETIMEDOUT or EUNKNOWN never stems from a
\* worker that exited normally.
C13_Original ==
    /\ wstatus.kind = "exited" => wstatus.val \notin {ETIMEDOUT, EUNKNOWN}
    /\ (pc = "exited" /\ exitAt = "main" /\ exitStatus \in {ETIMEDOUT, EUNKNOWN})
         => status.kind # "exited"


\* C14 (as stated): a worker found killed by a signal is classified
\* ETIMEDOUT only if handle_sigalrm killed it; one killed by a signal the
\* parent did not send is classified EUNKNOWN.
C14_Original ==
    /\ (ret = ETIMEDOUT /\ status.kind = "signaled") => killer = "guard"
    /\ (ret # None /\ killer = "external") => ret = EUNKNOWN

\* C14 (amended): a worker terminated by SIGKILL is classified ETIMEDOUT
\* whoever sent the signal; a worker that handle_sigalrm killed is always
\* classified ETIMEDOUT; a worker terminated by any other signal is
\* classified EUNKNOWN.
C14_Amended ==
    ret # None
      => /\ killer = "guard" => (status = Signaled(SIGKILL) /\ ret = ETIMEDOUT)
         /\ (killer = "external" /\ status.val = SIGKILL) => ret = ETIMEDOUT
         /\ (killer = "external" /\ status.val # SIGKILL) => ret = EUNKNOWN
         /\ (ret = ETIMEDOUT /\ status.kind = "signaled") => status.val = SIGKILL

C14_Witness ==
    /\ ret = ETIMEDOUT
    /\ killer = "external"
    /\ status = Signaled(SIGKILL)
    /\ killAt = "none"

\* C15 (as stated): a probe returns 0 exactly when none of its three system
\* calls failed, a readdir() that yields no entry included.
C15_Original ==
    /\ (statRet # None /\ readdirRet = None) => (statRet = 0 <=> ~failed)
    /\ readdirRet # None => (readdirRet = 0 <=> ~failed)

\* C16: from the moment wait_for_child classifies the status no alarm is
\* pending, whatever the status is, so handle_sigalrm cannot run while the
\* status is classified, translated and the process exits.
C16_AlarmCancelled ==
    (pc \in {"classify", "translate"} \/ ret # None) => ~alarm_armed

C16_Witness ==
    /\ pc = "translate"
    /\ status.kind = "continued"
    /\ ret = EUNKNOWN
    /\ ~alarm_armed
    /\ killAt = "none"


\* C17 (as stated): every index used on exitcode_map lies in 0..255: the
\* value of each -i that safe_atoi accepts, and the value wait_for_child
\* returned.
C17_Original ==
    /\ \A n \in ignored : n \in DOMAIN exitcode_map
    /\ pc = "translate" => ret \in DOMAIN exitcode_map

\* C18: one worker at most is created, no probe is started twice, the value
\* of wait_for_child is produced once, by the classification, and after it
\* the parent only translates and exits: no second fork, no further probe.
C18_NoRetry ==
    [][ /\ (wpc' = "start" /\ wpc # "start") => (wpc = "none" /\ pc = "fork")
        /\ wpc # "none" => wpc' # "none"
        /\ child # 0 => child' = child
        /\ (ret = None /\ ret' # None) => pc = "classify"
        /\ ret # None => (ret' = ret /\ wpc' = wpc /\ probes' = probes)
        /\ pc = "translate" => pc' \in {"translate", "exited"}
        /\ pc \in {"exited", "crashed"} => pc' = pc
        /\ Len(probes') <= 2
        /\ Len(probes') = 2 => probes'[1] # probes'[2]
      ]_vars

C18_Witness ==
    /\ pc = "exited"
    /\ exitAt = "main"
    /\ ret = ETIMEDOUT
    /\ killer = "guard"
    /\ probes = <<"stat">>

\* C19 (as stated, in the form one run can show): handling -i changes
\* nothing but the override table, which is written only while options are
\* parsed and no worker exists; so runs that differ in their -i codes only
\* carry the same timeout and check_method to the worker and reach the fork
\* alike.
C19_Original ==
    [][ (ignored' # ignored \/ exitcode_map' # exitcode_map)
          => /\ pc = "getopt" /\ pc' = "getopt"
             /\ wpc = "none"
             /\ timeout' = timeout
             /\ check_method' = check_method
             /\ check_method_set' = check_method_set
      ]_vars

====
